---- MODULE Spec2Model ----
(***************************************************************************)
(* Model of src/pyansys/archive.py: the CMBLOCK range writer               *)
(* (write_cmblock), the node block writer (write_nblock), the archive      *)
(* writer (save_as_archive), and the mesh assembly of raw_to_grid with its  *)
(* row deduplication (unique_rows).  Python sequences are 0-based; the model      *)
(* keeps TLA+'s 1-based sequences and goes through PyGet for every Python  *)
(* subscript, so that negative subscripts wrap as they do in Python.       *)
(***************************************************************************)
EXTENDS Integers, Sequences, FiniteSets, TLC

VARIABLES
    cm_pc,      \* write_cmblock: "start" (arguments bound) or "done"
    cm_items,   \* write_cmblock: the `items` argument
    cm_type,    \* write_cmblock: the `comp_type` argument
    cm_err,     \* write_cmblock: "none" or the exception that ended the call
    cm_file,    \* write_cmblock: the lines written to `filename`
    nb_pc,      \* write_nblock: "start" (arguments bound) or "done"
    nb_id,      \* write_nblock: the `node_id` argument
    nb_pos,     \* write_nblock: the `pos` argument
    nb_angles,  \* write_nblock: the `angles` argument, <<>> for None
    nb_err,     \* write_nblock: "none" or the exception that ended the call
    nb_file,    \* write_nblock: the lines written to `filename`
    sv_pc,      \* save_as_archive: "start" (arguments bound) or "done"
    grid,       \* save_as_archive: the mesh handed over as `grid`
    grid_in,    \* save_as_archive: the mesh as it was when the call began
    sv_args,    \* save_as_archive: the keyword arguments
    sv_err,     \* save_as_archive: "none" or the exception that ended the call
    sv_opened,  \* save_as_archive: the call opened the file `filename`
    sv_file,    \* save_as_archive: the lines of the file `filename`
    sv_loc,     \* save_as_archive: its local arrays when the call ended
    rg_pc,      \* raw_to_grid: "start" (arguments bound) or "done"
    rg_raw,     \* raw_to_grid: the `raw` argument (nodes, angles, nnum)
    rg_parsed,  \* raw_to_grid: what _parser.parse returned for `raw`
    rg_force,   \* raw_to_grid: the `force_linear` argument
    rg_grid     \* raw_to_grid: the grid returned

cm_vars == <<cm_pc, cm_items, cm_type, cm_err, cm_file>>
nb_vars == <<nb_pc, nb_id, nb_pos, nb_angles, nb_err, nb_file>>
sv_vars == <<sv_pc, grid, grid_in, sv_args, sv_err, sv_opened, sv_file, sv_loc>>
rg_vars == <<rg_pc, rg_raw, rg_parsed, rg_force, rg_grid>>
vars == <<cm_vars, nb_vars, sv_vars, rg_vars>>

\* a writer that is not called in the behaviours of a specification
CmIdle ==
    /\ cm_pc = "idle" /\ cm_items = <<>> /\ cm_type = ""
    /\ cm_err = "none" /\ cm_file = <<>>
NbIdle ==
    /\ nb_pc = "idle" /\ nb_id = <<>> /\ nb_pos = <<>> /\ nb_angles = <<>>
    /\ nb_err = "none" /\ nb_file = <<>>
SvIdle ==
    /\ sv_pc = "idle" /\ grid = <<>> /\ grid_in = <<>> /\ sv_args = <<>> /\ sv_err = "none"
    /\ sv_opened = FALSE /\ sv_file = <<>> /\ sv_loc = <<>>
RgIdle ==
    /\ rg_pc = "idle" /\ rg_raw = <<>> /\ rg_parsed = <<>> /\ rg_force = FALSE
    /\ rg_grid = <<>>

(***************************************************************************)
(* Bounds of the model                                                     *)
(***************************************************************************)
\* largest id offered to write_cmblock
MaxId == 9
\* how many non-positive ids (0, -1, ...) are offered to write_cmblock
NonPosIds == 2

(***************************************************************************)
(* Python / numpy helpers                                                  *)
(***************************************************************************)
\* s[k] with Python's subscript rule: 0-based, negative k counts from the end
PyGet(s, k) == IF k < 0 THEN s[Len(s) + k + 1] ELSE s[k + 1]

Abs(x) == IF x < 0 THEN 0 - x ELSE x

SeqToSet(s) == {s[k] : k \in DOMAIN s}

RECURSIVE SetToSortedSeq(_)
SetToSortedSeq(S) ==
    IF S = {} THEN <<>>
    ELSE LET m == CHOOSE x \in S : \A y \in S : x <= y
         IN  <<m>> \o SetToSortedSeq(S \ {m})

\* np.unique(a): the sorted distinct elements of a
np_unique(a) == SetToSortedSeq(SeqToSet(a))

\* np.diff(a): a[k+1] - a[k]
np_diff(a) == [k \in 1..(Len(a) - 1) |-> a[k + 1] - a[k]]

\* str.upper() on the component kinds the model offers
Upper(s) ==
    CASE s = "node" -> "NODE"
      [] s = "element" -> "ELEMENT"
      [] OTHER -> s

(***************************************************************************)
(* write_cmblock                                                           *)
(***************************************************************************)
\* mutant of CmLoop: the end of a run is never written
RECURSIVE CmLoopNoRunEnd(_, _, _)
CmLoopNoRunEnd(its, i, tp) ==
    IF i >= Len(its) - 1 THEN tp
    ELSE IF np_diff(its)[i + 1] = 1 THEN CmLoopNoRunEnd(its, i + 1, tp)
    ELSE CmLoopNoRunEnd(its, i + 1, tp \o <<PyGet(its, i + 1)>>)

\* the loop `for i, value in enumerate(np.diff(items))`, from index i on,
\* with toprint = tp
RECURSIVE CmLoop(_, _, _)
CmLoop(its, i, tp) ==
    IF i >= Len(its) - 1 THEN tp
    ELSE IF np_diff(its)[i + 1] = 1 THEN CmLoop(its, i + 1, tp)
    ELSE IF PyGet(its, i - 1) + 1 = PyGet(its, i)
         THEN CmLoop(its, i + 1, tp \o <<0 - PyGet(its, i), PyGet(its, i + 1)>>)
         ELSE CmLoop(its, i + 1, tp \o <<PyGet(its, i + 1)>>)

\* mutant of CmClose: the last run is never closed
CmCloseNoCatch(its, tp) == [err |-> "none", toprint |-> tp]

\* "catch if last item is part of a list": i is the loop's last index, and is
\* unbound when the loop body never ran
CmClose(its, tp) ==
    IF PyGet(tp, -1) # Abs(PyGet(its, -1))
    THEN IF Len(its) < 2
         THEN [err |-> "UnboundLocalError", toprint |-> tp]
         ELSE [err |-> "none",
               toprint |-> tp \o <<0 - PyGet(its, (Len(its) - 2) + 1)>>]
    ELSE [err |-> "none", toprint |-> tp]

\* lines 559-575: items -> toprint
CmToprint(rawitems) ==
    LET its == np_unique(rawitems)
    IN  IF Len(its) = 0
        THEN [err |-> "IndexError", toprint |-> <<>>]
        ELSE CmClose(its, CmLoop(its, 0, <<PyGet(its, 0)>>))

\* chunks(l, n): successive n-sized chunks of l
RECURSIVE chunks(_, _)
chunks(l, n) ==
    IF Len(l) = 0 THEN <<>>
    ELSE IF Len(l) <= n THEN <<l>>
    ELSE <<SubSeq(l, 1, n)>> \o chunks(SubSeq(l, n + 1, Len(l)), n)

\* fields per CMBLOCK data line
CmPerLine == 8

\* lines 577-588: the text of the block, one record per line
CmLines(toprint, comp_type) ==
    <<[kind |-> "CMBLOCK", txt |-> Upper(comp_type), vals |-> <<Len(toprint)>>],
      [kind |-> "format", txt |-> "(8i%d)", vals |-> <<>>]>>
    \o [k \in 1..Len(chunks(toprint, CmPerLine)) |->
          [kind |-> "data", txt |-> "", vals |-> chunks(toprint, CmPerLine)[k]]]
    \o <<[kind |-> "", txt |-> "", vals |-> <<>>]>>

\* the ids offered: NonPosIds non-positive ones and 1..MaxId
CmIds == (1 - NonPosIds)..MaxId

\* an id set handed over ascending or descending, with or without its first
\* element repeated at the end
CmArrange(T, desc, dup) ==
    LET a == SetToSortedSeq(T)
        s == IF desc THEN [k \in 1..Len(a) |-> a[Len(a) + 1 - k]] ELSE a
    IN  IF dup /\ Len(s) > 0 THEN Append(s, s[1]) ELSE s

CmInputs == {CmArrange(T, desc, dup) :
                T \in SUBSET CmIds, desc \in BOOLEAN, dup \in BOOLEAN}

CmTypes == {"NODE", "element", "KP"}

CmInit ==
    /\ cm_pc = "start"
    /\ cm_items \in CmInputs
    /\ cm_type \in CmTypes
    /\ cm_err = "none"
    /\ cm_file = <<>>

\* write_cmblock(filename, items, comp_name, comp_type) with filename a path
WriteCmblock ==
    /\ cm_pc = "start"
    /\ cm_pc' = "done"
    /\ UNCHANGED <<cm_items, cm_type, nb_vars, sv_vars, rg_vars>>
    /\ IF Upper(cm_type) \notin {"ELEMENT", "NODE"}
       THEN cm_err' = "ValueError" /\ cm_file' = cm_file
       ELSE LET r == CmToprint(cm_items)
            IN  /\ cm_err' = r.err
                /\ cm_file' = IF r.err = "none"
                              THEN CmLines(r.toprint, cm_type)
                              ELSE cm_file

CmNext == WriteCmblock

InitCm == CmInit /\ NbIdle /\ SvIdle /\ RgIdle

SpecCm == InitCm /\ [][CmNext]_vars

(***************************************************************************)
(* The CMBLOCK reader's range expansion (the reader is not part of the     *)
(* sources at hand; it is modelled from the format's description)          *)
(***************************************************************************)
\* the integers a..b in order
Range(a, b) == [j \in 1..(b - a + 1) |-> a + j - 1]

\* a positive token is appended; a negative token -b expands the run opened
\* by the token before it, through b inclusive
RECURSIVE DecodeFrom(_, _)
DecodeFrom(tokens, out) ==
    IF Len(tokens) = 0 THEN out
    ELSE LET t == Head(tokens)
         IN  IF t > 0 THEN DecodeFrom(Tail(tokens), Append(out, t))
             ELSE IF Len(out) = 0 THEN DecodeFrom(Tail(tokens), out)
             ELSE DecodeFrom(Tail(tokens),
                             out \o Range(out[Len(out)] + 1, 0 - t))

decode(tokens) == DecodeFrom(tokens, <<>>)

\* the integer fields of the data lines of a written block, in order
RECURSIVE CmTokens(_)
CmTokens(lines) ==
    IF Len(lines) = 0 THEN <<>>
    ELSE (IF Head(lines).kind = "data" THEN Head(lines).vals ELSE <<>>)
         \o CmTokens(Tail(lines))

(***************************************************************************)
(* Claims about write_cmblock                                              *)
(***************************************************************************)
\* strictly ascending, duplicate-free, positive
StrictAscPos(s) ==
    /\ \A k \in DOMAIN s : s[k] > 0
    /\ \A k \in 1..(Len(s) - 1) : s[k] < s[k + 1]

\* the call is over and its comp_type was accepted
CmCalled == cm_pc = "done" /\ Upper(cm_type) \in {"ELEMENT", "NODE"}

\* one entry per maximal run of consecutive integers of S, from position k on:
\* a, -b for a run a..b with b > a, and a alone for a run of length 1
RunEnd(S, k) ==
    CHOOSE j \in k..Len(S) :
        /\ \A m \in k..(j - 1) : S[m + 1] = S[m] + 1
        /\ (j < Len(S) => S[j + 1] # S[j] + 1)

RECURSIVE RunTokens(_, _)
RunTokens(S, k) ==
    IF k > Len(S) THEN <<>>
    ELSE LET j == RunEnd(S, k)
         IN  (IF j > k THEN <<S[k], 0 - S[j]>> ELSE <<S[k]>>)
             \o RunTokens(S, j + 1)

\* C1 as stated: for every strictly ascending, duplicate-free sequence S of
\* positive integers (the empty one included), write_cmblock emits a token
\* stream and decoding it yields exactly S
C1_InverseLawAnyS ==
    (CmCalled /\ StrictAscPos(cm_items))
        => (cm_err = "none" /\ decode(CmTokens(cm_file)) = cm_items)

\* C1 (amended): for every NON-EMPTY strictly ascending, duplicate-free
\* sequence S of positive integers, write_cmblock returns normally and
\* decoding the token stream it wrote yields exactly S
C1_InverseLaw ==
    (CmCalled /\ StrictAscPos(cm_items) /\ Len(cm_items) > 0)
        => (cm_err = "none" /\ decode(CmTokens(cm_file)) = cm_items)

\* C1 witness: a sequence whose last run has exactly two elements was written
\* and decodes to itself
C1_Witness ==
    /\ CmCalled /\ cm_items = <<2, 4, 5>>
    /\ CmTokens(cm_file) = <<2, 4, -5>>
    /\ decode(CmTokens(cm_file)) = <<2, 4, 5>>

\* C2 as stated: for every strictly ascending, duplicate-free positive S (the
\* empty one included) the token stream written is one entry per maximal run
C2_RunTokensAnyS ==
    (CmCalled /\ StrictAscPos(cm_items))
        => (cm_err = "none" /\ CmTokens(cm_file) = RunTokens(cm_items, 1))

\* C2 (amended): for every NON-EMPTY strictly ascending, duplicate-free
\* positive S the token stream written is, in order, one entry per maximal run
\* of consecutive integers: a, -b for a run a..b with b > a, a for a single
\* value; [1,2,3,5,7,8,9] gives 1,-3,5,7,-9 and [4] gives 4 alone
C2_RunTokens ==
    /\ (CmCalled /\ StrictAscPos(cm_items) /\ Len(cm_items) > 0)
         => (cm_err = "none" /\ CmTokens(cm_file) = RunTokens(cm_items, 1))
    /\ (CmCalled /\ cm_items = <<1, 2, 3, 5, 7, 8, 9>>)
         => CmTokens(cm_file) = <<1, -3, 5, 7, -9>>
    /\ (CmCalled /\ cm_items = <<4>>) => CmTokens(cm_file) = <<4>>

\* C2 witness: the documented example was written
C2_Witness ==
    /\ CmCalled /\ cm_items = <<1, 2, 3, 5, 7, 8, 9>>
    /\ CmTokens(cm_file) = <<1, -3, 5, 7, -9>>

\* the stream starts with a positive token and has no two consecutive
\* negative tokens
CmWellFormed(tokens) ==
    /\ Len(tokens) > 0 /\ tokens[1] > 0
    /\ \A k \in 1..(Len(tokens) - 1) : ~(tokens[k] < 0 /\ tokens[k + 1] < 0)

\* C3 as stated: for every non-empty id list given to write_cmblock, the
\* emitted token stream starts with a positive token and never contains two
\* consecutive negative tokens
C3_WellFormedAnyIds ==
    (CmCalled /\ Len(cm_items) > 0 /\ cm_err = "none")
        => CmWellFormed(CmTokens(cm_file))

\* the same for id lists of positive ids only, in any order and with repeats
CmWellFormedPositiveIds ==
    (CmCalled /\ Len(cm_items) > 0 /\ \A k \in DOMAIN cm_items : cm_items[k] > 0)
        => (cm_err = "none" /\ CmWellFormed(CmTokens(cm_file)))

\* C4 as stated: an id list that contains a zero or negative id is rejected
\* with InvalidComponentId and no CMBLOCK text is written for it
C4_RejectsNonPositive ==
    (CmCalled /\ \E k \in DOMAIN cm_items : cm_items[k] <= 0)
        => (cm_err = "InvalidComponentId" /\ cm_file = <<>>)

(***************************************************************************)
(* write_nblock                                                            *)
(***************************************************************************)
\* most node rows handed to write_nblock
MaxNodes == 3
\* largest node id handed to write_nblock
MaxNodeId == 4

\* np.max(a)
np_max(a) == CHOOSE x \in SeqToSet(a) : \A y \in SeqToSet(a) : y <= x

\* np.argsort(a): the (1-based) indices of a in ascending order of value;
\* the arrays sorted here hold pairwise distinct values, equal values would
\* keep their input order
np_argsort(a) ==
    [k \in 1..Len(a) |->
        CHOOSE i \in 1..Len(a) :
            Cardinality({j \in 1..Len(a) :
                            a[j] < a[i] \/ (a[j] = a[i] /\ j < i)}) = k - 1]

\* a[ind]: numpy's indexing of an array by an index array
Take(a, ind) == [k \in 1..Len(ind) |-> a[ind[k]]]

\* a line of an archive: its kind, its integer fields, its real fields
Line(kind, vals, reals) == [kind |-> kind, vals |-> vals, reals |-> reals]

\* mutant of NbRows: the positions are not reordered with the ids
NbRowsPosNotSorted(node_id, pos, angles) ==
    LET ind == np_argsort(node_id)
        ids == Take(node_id, ind)
    IN  [k \in 1..Len(ids) |->
            Line("node", <<ids[k], 0, 0>>,
                 pos[k] \o (IF Len(angles) = 0 THEN <<>> ELSE angles[k]))]

\* lines 499-532: the rows np.savetxt writes; node_id and pos are sorted by
\* node id, angles are stored as given
NbRows(node_id, pos, angles) ==
    LET ind == np_argsort(node_id)
        ids == Take(node_id, ind)
        p   == Take(pos, ind)
    IN  [k \in 1..Len(ids) |->
            Line("node", <<ids[k], 0, 0>>,
                 p[k] \o (IF Len(angles) = 0 THEN <<>> ELSE angles[k]))]

\* lines 492-494: the header, with np.max(node_id) and pos.shape[0]
NbHeader(node_id, pos) ==
    <<Line("/PREP7 ", <<>>, <<>>),
      Line("NBLOCK,6,SOLID", <<np_max(node_id), Len(pos)>>, <<>>),
      Line("(3i8,6e20.13)", <<>>, <<>>)>>

\* line 497: the footer
NbFooter == <<Line("N,R5.3,LOC", <<-1>>, <<>>)>>

\* write_nblock(filename, node_id, pos, angles): np.max fails on no nodes
NblockResult(node_id, pos, angles) ==
    IF Len(node_id) = 0
    THEN [err |-> "ValueError", lines |-> <<>>]
    ELSE [err |-> "none",
          lines |-> NbHeader(node_id, pos) \o NbRows(node_id, pos, angles)
                    \o NbFooter]

Injective(s) == \A i, j \in DOMAIN s : i # j => s[i] # s[j]

\* positions and angles offered (x, y, z)
NbPosVals == {<<0, 0, 0>>, <<2, 0, 0>>, <<0, 2, 0>>}
NbAngVals == {<<0, 0, 0>>, <<0, 0, 9>>}

NbInit ==
    /\ nb_pc = "start"
    /\ \E n \in 0..MaxNodes :
          /\ nb_id \in {s \in [1..n -> 1..MaxNodeId] : Injective(s)}
          /\ nb_pos \in [1..n -> NbPosVals]
          /\ nb_angles \in {<<>>} \cup (IF n > 0 THEN [1..n -> NbAngVals] ELSE {})
    /\ nb_err = "none"
    /\ nb_file = <<>>

\* write_nblock(filename, node_id, pos, angles) on a fresh file
WriteNblock ==
    /\ nb_pc = "start"
    /\ nb_pc' = "done"
    /\ LET r == NblockResult(nb_id, nb_pos, nb_angles)
       IN  nb_err' = r.err /\ nb_file' = nb_file \o r.lines
    /\ UNCHANGED <<nb_id, nb_pos, nb_angles, cm_vars, sv_vars, rg_vars>>

NbNext == WriteNblock

InitNb == NbInit /\ CmIdle /\ SvIdle /\ RgIdle

SpecNb == InitNb /\ [][NbNext]_vars

\* the node rows of a written file
RECURSIVE NodeRows(_)
NodeRows(lines) ==
    IF Len(lines) = 0 THEN <<>>
    ELSE (IF Head(lines).kind = "node" THEN <<Head(lines)>> ELSE <<>>)
         \o NodeRows(Tail(lines))

\* the NBLOCK header lines of a written file
RECURSIVE NblockHeaders(_)
NblockHeaders(lines) ==
    IF Len(lines) = 0 THEN <<>>
    ELSE (IF Head(lines).kind = "NBLOCK,6,SOLID" THEN <<Head(lines)>> ELSE <<>>)
         \o NblockHeaders(Tail(lines))

\* C7: for every input order of (node id, position) pairs with distinct ids
\* (at least one pair, the header's maximum being that of the ids),
\* write_nblock writes one row per pair, in strictly ascending node-id order,
\* each id with its own position, and the NBLOCK header carries the largest
\* node id and the number of nodes
C7_NblockSorted ==
    (nb_pc = "done" /\ Len(nb_id) > 0) =>
        LET rows == NodeRows(nb_file)
        IN  /\ nb_err = "none"
            /\ Len(rows) = Len(nb_id)
            /\ \A k \in 1..(Len(rows) - 1) : rows[k].vals[1] < rows[k + 1].vals[1]
            /\ \A i \in DOMAIN nb_id :
                  \E k \in DOMAIN rows :
                      /\ rows[k].vals[1] = nb_id[i]
                      /\ SubSeq(rows[k].reals, 1, 3) = nb_pos[i]
            /\ NblockHeaders(nb_file) =
                  <<Line("NBLOCK,6,SOLID",
                         <<np_max(nb_id), Len(nb_id)>>, <<>>)>>

\* C7 witness: three nodes handed over in descending id order, with distinct
\* positions, were written in ascending order
C7_Witness ==
    /\ nb_pc = "done" /\ nb_err = "none"
    /\ nb_id = <<4, 2, 1>>
    /\ nb_pos = <<<<0, 0, 0>>, <<2, 0, 0>>, <<0, 2, 0>>>>
    /\ NodeRows(nb_file) = <<Line("node", <<1, 0, 0>>, <<0, 2, 0>>),
                             Line("node", <<2, 0, 0>>, <<2, 0, 0>>),
                             Line("node", <<4, 0, 0>>, <<0, 0, 0>>)>>

(***************************************************************************)
(* save_as_archive: the mesh, the arguments, numpy helpers                 *)
(***************************************************************************)
\* vtk's cell type numbers (imported at lines 8-10)
VTK_TETRA == 10
VTK_HEXAHEDRON == 12
VTK_WEDGE == 13
VTK_PYRAMID == 14
VTK_QUADRATIC_TETRA == 24
VTK_QUADRATIC_HEXAHEDRON == 25
VTK_QUADRATIC_WEDGE == 26
VTK_QUADRATIC_PYRAMID == 27
\* a cell type save_as_archive has no branch for (vtk's VTK_QUAD)
VTK_QUAD == 9

\* the number of points of a cell of type ct
CellSize(ct) ==
    CASE ct = VTK_TETRA -> 4
      [] ct = VTK_HEXAHEDRON -> 8
      [] ct = VTK_WEDGE -> 6
      [] ct = VTK_PYRAMID -> 5
      [] ct = VTK_QUADRATIC_TETRA -> 10
      [] ct = VTK_QUADRATIC_HEXAHEDRON -> 20
      [] ct = VTK_QUADRATIC_WEDGE -> 15
      [] ct = VTK_QUADRATIC_PYRAMID -> 13
      [] OTHER -> 4

\* np.arange(a, b)
arange(a, b) == [k \in 1..(b - a) |-> a + k - 1]

\* np.any(arr == v)
AnyEq(arr, v) == \E k \in DOMAIN arr : arr[k] = v

\* lines 184-191 and 209-216: arr[arr == -1] = np.arange(start_num, end_num)
\* with start_num the larger of arr.max() + 1 and the start argument
FillMissing(arr, start_arg) ==
    LET start_max == np_max(arr) + 1
        start_num == IF start_arg > start_max THEN start_arg ELSE start_max
    IN  [k \in 1..Len(arr) |->
            IF arr[k] = -1
            THEN start_num + Cardinality({j \in 1..(k - 1) : arr[j] = -1})
            ELSE arr[k]]

\* lines 228 and 240: arr[arr == -1] = start
FillWith(arr, start) == [k \in 1..Len(arr) |-> IF arr[k] = -1 THEN start ELSE arr[k]]

\* grid.cells and grid.offset: each cell is its point count followed by its
\* (0-based) point indices; offset[i] is the place of cell i's count
RECURSIVE FlatCells(_)
FlatCells(conn) ==
    IF Len(conn) = 0 THEN <<>>
    ELSE <<Len(Head(conn))>> \o Head(conn) \o FlatCells(Tail(conn))

RECURSIVE Offsets(_, _)
Offsets(conn, at) ==
    IF Len(conn) = 0 THEN <<>>
    ELSE <<at>> \o Offsets(Tail(conn), at + 1 + Len(Head(conn)))

\* a mesh: points, cells and the point and cell arrays save_as_archive reads
\* (has_x: the array is present in grid.point_arrays / grid.cell_arrays)
Mesh(points, celltypes, conn) ==
    [points |-> points,
     celltypes |-> celltypes,
     cells |-> FlatCells(conn),
     offset |-> Offsets(conn, 0),
     has_nnum |-> FALSE, nnum |-> <<>>,
     has_enum |-> FALSE, enum |-> <<>>,
     has_mtype |-> FALSE, mtype |-> <<>>,
     has_rcon |-> FALSE, rcon |-> <<>>,
     has_etype |-> FALSE, etype |-> <<>>,
     has_typenum |-> FALSE, typenum |-> <<>>]

\* the keyword arguments of save_as_archive at their defaults (lines 102-106)
DefaultArgs ==
    [mtype_start |-> 1, etype_start |-> 1, real_constant_start |-> 1,
     mode |-> "w", nblock |-> TRUE, enum_start |-> 1, nnum_start |-> 1,
     include_etype_header |-> TRUE, reset_etype |-> FALSE,
     allow_missing |-> TRUE]

(***************************************************************************)
(* save_as_archive: the numbering of nodes and elements (lines 173-216)    *)
(***************************************************************************)
\* mutant of SvNodeNum: -1 entries are numbered from nnum_start, whatever the
\* largest assigned number
SvNodeNumFromStart(g, a) ==
    LET n0 == IF g.has_nnum THEN g.nnum ELSE arange(1, Len(g.points) + 1)
    IN  IF AnyEq(n0, -1)
        THEN IF ~a.allow_missing
             THEN [err |-> "Exception@183", g |-> g, nodenum |-> n0]
             ELSE LET n1 == [k \in 1..Len(n0) |->
                               IF n0[k] = -1
                               THEN a.nnum_start
                                    + Cardinality({j \in 1..(k - 1) : n0[j] = -1})
                               ELSE n0[k]]
                  IN  [err |-> "none",
                       g |-> IF g.has_nnum THEN [g EXCEPT !.nnum = n1] ELSE g,
                       nodenum |-> n1]
        ELSE [err |-> "none", g |-> g, nodenum |-> n0]

\* lines 173-191: nodenum; the array of the mesh is filled in place
SvNodeNum(g, a) ==
    LET n0 == IF g.has_nnum THEN g.nnum ELSE arange(1, Len(g.points) + 1)
    IN  IF AnyEq(n0, -1)
        THEN IF ~a.allow_missing
             THEN [err |-> "Exception@183", g |-> g, nodenum |-> n0]
             ELSE LET n1 == FillMissing(n0, a.nnum_start)
                  IN  [err |-> "none",
                       g |-> IF g.has_nnum THEN [g EXCEPT !.nnum = n1] ELSE g,
                       nodenum |-> n1]
        ELSE [err |-> "none", g |-> g, nodenum |-> n0]

\* lines 193-216: enum; the array of the mesh is filled in place
SvEnum(g, a) ==
    IF ~g.has_enum /\ ~a.allow_missing
    THEN [err |-> "Exception@199", g |-> g, enum |-> <<>>]
    ELSE LET e0 == IF g.has_enum THEN g.enum
                   ELSE arange(1, Len(g.celltypes) + 1)
         IN  IF AnyEq(e0, -1)
             THEN IF ~a.allow_missing
                  THEN [err |-> "Exception@206", g |-> g, enum |-> e0]
                  ELSE LET e1 == FillMissing(e0, a.enum_start)
                       IN  [err |-> "none",
                            g |-> IF g.has_enum THEN [g EXCEPT !.enum = e1] ELSE g,
                            enum |-> e1]
             ELSE [err |-> "none", g |-> g, enum |-> e0]

\* lines 218-228: mtype; the array of the mesh is filled in place
SvMtype(g, a) ==
    LET m0 == IF g.has_mtype THEN g.mtype ELSE arange(1, Len(g.celltypes) + 1)
        m1 == FillWith(m0, a.mtype_start)
    IN  [g |-> IF g.has_mtype THEN [g EXCEPT !.mtype = m1] ELSE g, mtype |-> m1]

\* lines 230-240: rcon; the array of the mesh is filled in place
SvRcon(g, a) ==
    LET r0 == IF g.has_rcon THEN g.rcon ELSE arange(1, Len(g.celltypes) + 1)
        r1 == FillWith(r0, a.real_constant_start)
    IN  [g |-> IF g.has_rcon THEN [g EXCEPT !.rcon = r1] ELSE g, rcon |-> r1]

(***************************************************************************)
(* save_as_archive: element types (lines 242-302)                          *)
(***************************************************************************)
\* np.unique(arr, return_index=True)[1]: for each distinct value, ascending,
\* the (1-based) index of its first occurrence
UniqueIndex(arr) ==
    LET vs == np_unique(arr)
    IN  [k \in 1..Len(vs) |->
            CHOOSE i \in 1..Len(arr) :
                arr[i] = vs[k] /\ \A j \in 1..(i - 1) : arr[j] # vs[k]]

ET(etype, typenum) == Line("ET", <<etype, typenum>>, <<>>)

\* lines 274-287: the default element type number of a cell; an entry of
\* np.empty no assignment reaches keeps whatever the memory held (u)
DefaultEtype(ct, etype_start, u) ==
    IF ct \in {VTK_TETRA, VTK_HEXAHEDRON, VTK_WEDGE, VTK_PYRAMID}
    THEN etype_start + 2
    ELSE IF ct \in {VTK_QUADRATIC_HEXAHEDRON, VTK_QUADRATIC_WEDGE,
                    VTK_QUADRATIC_PYRAMID}
    THEN etype_start
    ELSE IF ct = VTK_QUADRATIC_TETRA THEN etype_start + 1
    ELSE u

\* lines 289-292: the default type of an element type number
DefaultTypenum(et, etype_start, u) ==
    IF et = etype_start + 2 THEN 185
    ELSE IF et = etype_start THEN 186
    ELSE IF et = etype_start + 1 THEN 187
    ELSE u

\* lines 298-302: number of nodes written per element
ElemNnodes(tn, u) ==
    IF tn = 185 THEN 8
    ELSE IF tn = 186 THEN 20
    ELSE IF tn = 187 THEN 10
    ELSE u

\* lines 242-302: etype, typenum, elem_nnodes and the ET lines of the header
SvEtype(g, a, u) ==
    LET use_mesh == g.has_etype /\ ~a.reset_etype
        n        == Len(g.celltypes)
    IN  IF use_mesh /\ ~g.has_typenum
        THEN [err |-> "KeyError@246", header |-> <<>>,
              etype |-> <<>>, typenum |-> <<>>, elem_nnodes |-> <<>>]
        ELSE
        LET missing  == ~use_mesh
            invalid1 == use_mesh /\ AnyEq(g.etype, -1)
            header1  == IF use_mesh /\ a.include_etype_header /\ ~invalid1
                        THEN [k \in 1..Len(UniqueIndex(g.etype)) |->
                                 ET(g.etype[UniqueIndex(g.etype)[k]],
                                    g.typenum[UniqueIndex(g.etype)[k]])]
                        ELSE <<>>
            invalid  == \/ invalid1
                        \/ /\ ~missing
                           /\ \E i \in 1..n :
                                 g.celltypes[i] < 20 /\ g.typenum[i] = 186
        IN  IF invalid \/ missing
            THEN IF ~a.allow_missing
                 THEN [err |-> "Exception@268", header |-> header1,
                       etype |-> <<>>, typenum |-> <<>>, elem_nnodes |-> <<>>]
                 ELSE LET et == [i \in 1..n |->
                                   DefaultEtype(g.celltypes[i], a.etype_start, u)]
                          tn == [i \in 1..n |->
                                   DefaultTypenum(et[i], a.etype_start, u)]
                      IN  [err |-> "none",
                           header |-> header1
                                      \o <<ET(a.etype_start + 2, 185),
                                           ET(a.etype_start, 186),
                                           ET(a.etype_start + 1, 187)>>,
                           etype |-> et, typenum |-> tn,
                           elem_nnodes |-> [i \in 1..n |-> ElemNnodes(tn[i], u)]]
            ELSE [err |-> "none", header |-> header1,
                  etype |-> g.etype, typenum |-> g.typenum,
                  elem_nnodes |->
                      [i \in 1..n |-> ElemNnodes(g.typenum[i], u)]]

(***************************************************************************)
(* save_as_archive: the element records (lines 317-463)                    *)
(***************************************************************************)
\* for each archive slot, the (0-based) place in the cell's node list of the
\* node written there
\* mutant of TetraSlots: slot L repeats M instead of K
TetraSlotsLRepeatsM == <<0, 1, 2, 3, 3, 3, 3, 3>>
\* lines 372-379
TetraSlots == <<0, 1, 2, 2, 3, 3, 3, 3>>
\* lines 344: the cell's ten nodes as they are
Tetra10Slots187 == <<0, 1, 2, 3, 4, 5, 6, 7, 8, 9>>
\* lines 346-365
Tetra10Slots186 ==
    <<0, 1, 2, 2, 3, 3, 3, 3, 4, 5, 3, 6, 3, 3, 3, 3, 7, 8, 9, 9>>
\* lines 383-390
WedgeSlots == <<2, 1, 0, 0, 5, 4, 3, 3>>
\* mutant of Wedge15Slots: slot A repeats Z, node 12 is written nowhere
Wedge15SlotsLosesA ==
    <<2, 1, 0, 0, 5, 4, 3, 3, 7, 6, 0, 8, 10, 9, 3, 11, 14, 13, 13, 13>>
\* lines 394-413
Wedge15Slots ==
    <<2, 1, 0, 0, 5, 4, 3, 3, 7, 6, 0, 8, 10, 9, 3, 11, 14, 13, 12, 12>>
\* lines 418-437
Pyramid13Slots ==
    <<0, 1, 2, 3, 4, 4, 4, 4, 5, 6, 7, 8, 4, 4, 4, 4, 9, 10, 11, 12>>
\* lines 443-450
PyramidSlots == <<0, 1, 2, 3, 4, 4, 4, 4>>
\* line 454: nodes[:8]
HexSlots == <<0, 1, 2, 3, 4, 5, 6, 7>>
\* lines 457-458: nodes[:8] and nodes[8:]
Hex20Slots ==
    <<0, 1, 2, 3, 4, 5, 6, 7, 8, 9, 10, 11, 12, 13, 14, 15, 16, 17, 18, 19>>

\* the cell types the chain of lines 342-458 has a branch for
Writable == {VTK_QUADRATIC_TETRA, VTK_TETRA, VTK_WEDGE, VTK_QUADRATIC_WEDGE,
             VTK_QUADRATIC_PYRAMID, VTK_PYRAMID, VTK_HEXAHEDRON,
             VTK_QUADRATIC_HEXAHEDRON}

\* the branch taken for a cell of type ct whose element type is tn
SlotTemplate(ct, tn) ==
    CASE ct = VTK_QUADRATIC_TETRA /\ tn = 187 -> Tetra10Slots187
      [] ct = VTK_QUADRATIC_TETRA /\ tn # 187 -> Tetra10Slots186
      [] ct = VTK_TETRA -> TetraSlots
      [] ct = VTK_WEDGE -> WedgeSlots
      [] ct = VTK_QUADRATIC_WEDGE -> Wedge15Slots
      [] ct = VTK_QUADRATIC_PYRAMID -> Pyramid13Slots
      [] ct = VTK_PYRAMID -> PyramidSlots
      [] ct = VTK_HEXAHEDRON -> HexSlots
      [] ct = VTK_QUADRATIC_HEXAHEDRON -> Hex20Slots

\* writenodes: the node ids written for a cell with node ids `nodes`
WriteNodes(ct, tn, nodes) ==
    [k \in 1..Len(SlotTemplate(ct, tn)) |-> PyGet(nodes, SlotTemplate(ct, tn)[k])]

\* slots per line of an element record: the first line holds 8 node ids after
\* the 11 fields of cellinfo, the second line the rest
FirstLineSlots == 8

\* lines 322-458: the lines of cell i (1-based) of the mesh
CellLines(g, i, nodenum, enum, mtype, rcon, et) ==
    LET c        == g.offset[i]
        nnode    == PyGet(g.cells, c)
        nodes    == [k \in 1..nnode |-> PyGet(nodenum, PyGet(g.cells, c + k))]
        cellinfo == <<mtype[i], et.etype[i], rcon[i], 1, 0, 0, 0, 0,
                      et.elem_nnodes[i], 0, enum[i]>>
        w        == WriteNodes(g.celltypes[i], et.typenum[i], nodes)
    IN  IF Len(w) <= FirstLineSlots
        THEN <<Line("elem", cellinfo \o w, <<>>)>>
        ELSE <<Line("elem", cellinfo \o SubSeq(w, 1, FirstLineSlots), <<>>),
               Line("elem+", SubSeq(w, FirstLineSlots + 1, Len(w)), <<>>)>>

\* mutant of CellLoop: a cell of another type is skipped silently
RECURSIVE CellLoopSkips(_, _, _, _, _, _, _)
CellLoopSkips(g, i, nodenum, enum, mtype, rcon, et) ==
    IF i > Len(g.celltypes) THEN [err |-> "none", lines |-> <<>>]
    ELSE LET rest == CellLoopSkips(g, i + 1, nodenum, enum, mtype, rcon, et)
         IN  [err |-> rest.err,
              lines |-> (IF g.celltypes[i] \notin Writable THEN <<>>
                         ELSE CellLines(g, i, nodenum, enum, mtype, rcon, et))
                        \o rest.lines]

\* the loop of lines 321-463 from cell i on: each cell's lines are written
\* before the next cell is looked at; a cell of another type ends the call
RECURSIVE CellLoop(_, _, _, _, _, _, _)
CellLoop(g, i, nodenum, enum, mtype, rcon, et) ==
    IF i > Len(g.celltypes) THEN [err |-> "none", lines |-> <<>>]
    ELSE IF g.celltypes[i] \notin Writable
    THEN [err |-> "Exception@461", lines |-> <<>>]
    ELSE LET rest == CellLoop(g, i + 1, nodenum, enum, mtype, rcon, et)
         IN  [err |-> rest.err,
              lines |-> CellLines(g, i, nodenum, enum, mtype, rcon, et)
                        \o rest.lines]

(***************************************************************************)
(* save_as_archive: the whole call                                         *)
(***************************************************************************)
\* the local arrays of a call
Locals(nodenum, enum, mtype, rcon, et) ==
    [nodenum |-> nodenum, enum |-> enum, mtype |-> mtype, rcon |-> rcon,
     etype |-> et.etype, typenum |-> et.typenum,
     elem_nnodes |-> et.elem_nnodes]

NoEtype == [etype |-> <<>>, typenum |-> <<>>, elem_nnodes |-> <<>>]

\* a call that raised before line 304: the file is not opened
SvRaised(err, g, old, loc) ==
    [err |-> err, g |-> g, opened |-> FALSE, file |-> old, loc |-> loc]

\* lines 311-315: the header of the element block, with enum[-1] and ncells
EblockHeader(enum, ncells) ==
    <<Line("EBLOCK,19,SOLID", <<PyGet(enum, -1), ncells>>, <<>>),
      Line("(19i8)", <<>>, <<>>)>>

\* lines 304-465: the file is opened with `mode` and written; write_nblock is
\* called whenever the name write_nblock is true, and it names the function
SvWrite(g, a, old, nodenum, enum, mtype, rcon, et) ==
    LET base   == IF a.mode = "w" THEN <<>> ELSE old
        header == <<Line("/PREP7", <<>>, <<>>)>> \o et.header
        nb     == NblockResult(nodenum, g.points, <<>>)
        loop   == CellLoop(g, 1, nodenum, enum, mtype, rcon, et)
        loc    == Locals(nodenum, enum, mtype, rcon, et)
    IN  IF nb.err # "none"
        THEN [err |-> nb.err, g |-> g, opened |-> TRUE,
              file |-> base \o header, loc |-> loc]
        ELSE IF loop.err # "none"
        THEN [err |-> loop.err, g |-> g, opened |-> TRUE,
              file |-> base \o header \o nb.lines
                       \o EblockHeader(enum, Len(g.celltypes)) \o loop.lines,
              loc |-> loc]
        ELSE [err |-> "none", g |-> g, opened |-> TRUE,
              file |-> base \o header \o nb.lines
                       \o EblockHeader(enum, Len(g.celltypes)) \o loop.lines
                       \o <<Line("-1", <<-1>>, <<>>)>>,
              loc |-> loc]

\* save_as_archive(filename, grid, **a) on a file holding the lines `old`;
\* u is the content of the entries of np.empty arrays nothing is stored in
SaveResult(g, a, old, u) ==
    LET nn == SvNodeNum(g, a)
    IN  IF nn.err # "none"
        THEN SvRaised(nn.err, nn.g, old,
                      Locals(nn.nodenum, <<>>, <<>>, <<>>, NoEtype))
        ELSE
        LET en == SvEnum(nn.g, a)
        IN  IF en.err # "none"
            THEN SvRaised(en.err, en.g, old,
                          Locals(nn.nodenum, en.enum, <<>>, <<>>, NoEtype))
            ELSE
            LET mt == SvMtype(en.g, a)
                rc == SvRcon(mt.g, a)
                et == SvEtype(rc.g, a, u)
            IN  IF et.err # "none"
                THEN SvRaised(et.err, rc.g, old,
                              Locals(nn.nodenum, en.enum, mt.mtype, rc.rcon, et))
                ELSE SvWrite(rc.g, a, old, nn.nodenum, en.enum,
                             mt.mtype, rc.rcon, et)

\* what np.empty may hold where nothing is stored
Uninit == {0, 8}

SaveAsArchive ==
    /\ sv_pc = "start"
    /\ sv_pc' = "done"
    /\ grid_in' = grid
    /\ \E u \in Uninit :
          LET r == SaveResult(grid, sv_args, sv_file, u)
          IN  /\ sv_err' = r.err
              /\ grid' = r.g
              /\ sv_opened' = r.opened
              /\ sv_file' = r.file
              /\ sv_loc' = r.loc
    /\ UNCHANGED <<sv_args, cm_vars, nb_vars, rg_vars>>

(***************************************************************************)
(* save_as_archive: the meshes and arguments of the model                  *)
(***************************************************************************)
\* largest node or element number the arrays of a mesh hold
SvMaxNum == 4

\* n points on a line
Points(n) == [k \in 1..n |-> <<k - 1, 0, 0>>]

\* the values offered for nnum_start and enum_start
Starts == {0, 1, 3, 7}

\* number arrays of length n: -1 (unassigned) or 1..SvMaxNum
NumArrays(n) == [1..n -> {-1} \cup 1..SvMaxNum]

Const(n, v) == [k \in 1..n |-> v]

\* a mesh all of whose arrays are present and assigned: element type 1 is
\* the type tn
Complete(m, tn) ==
    LET n == Len(m.celltypes)
    IN  [m EXCEPT !.has_nnum = TRUE, !.nnum = arange(1, Len(m.points) + 1),
                  !.has_enum = TRUE, !.enum = arange(1, n + 1),
                  !.has_mtype = TRUE, !.mtype = Const(n, 1),
                  !.has_rcon = TRUE, !.rcon = Const(n, 1),
                  !.has_etype = TRUE, !.etype = Const(n, 1),
                  !.has_typenum = TRUE, !.typenum = Const(n, tn)]

\* one tetrahedron on four points
OneTetra == Mesh(Points(4), <<VTK_TETRA>>, <<<<0, 1, 2, 3>>>>)

\* three tetrahedra on the same four points
ThreeTetra ==
    Mesh(Points(4), <<VTK_TETRA, VTK_TETRA, VTK_TETRA>>,
         <<<<0, 1, 2, 3>>, <<1, 0, 3, 2>>, <<3, 2, 1, 0>>>>)

\* meshes that differ in their node numbers
NodeNumMeshes ==
    {[Complete(OneTetra, 185) EXCEPT !.has_nnum = FALSE, !.nnum = <<>>]}
    \cup {[Complete(OneTetra, 185) EXCEPT !.nnum = a] : a \in NumArrays(4)}

\* meshes that differ in their element numbers
ElemNumMeshes ==
    {[Complete(ThreeTetra, 185) EXCEPT !.has_enum = FALSE, !.enum = <<>>]}
    \cup {[Complete(ThreeTetra, 185) EXCEPT !.enum = a] : a \in NumArrays(3)}

\* the node lists offered for a single cell of n points
Conns(n) == {[k \in 1..n |-> k - 1], [k \in 1..n |-> n - k]}

\* meshes of a single cell: every cell type, with the element type taken
\* from the mesh or left to save_as_archive, with and without node numbers
ShapeMeshes ==
    LET one(ct, conn) == Mesh(Points(CellSize(ct)), <<ct>>, <<conn>>)
        typed(m) == {m} \cup {[Complete(m, tn) EXCEPT !.has_nnum = FALSE,
                                                      !.nnum = <<>>] :
                                 tn \in {185, 186, 187, 45}}
        numbered(m) ==
            {m, [m EXCEPT !.has_nnum = TRUE,
                          !.nnum = [k \in 1..Len(m.points) |-> 100 + 3 * k]]}
    IN  UNION {UNION {UNION {numbered(t) : t \in typed(one(ct, conn))} :
                         conn \in Conns(CellSize(ct))} :
                  ct \in Writable \cup {VTK_QUAD}}

\* meshes that differ in their material and real constant numbers (absent,
\* or each entry unset or 2), saved with and without the node block
MatMeshes ==
    LET vals == [1..3 -> {-1, 2}]
        mts  == {[Complete(ThreeTetra, 185) EXCEPT !.has_mtype = FALSE,
                                                   !.mtype = <<>>]}
                \cup {[Complete(ThreeTetra, 185) EXCEPT !.mtype = a] : a \in vals}
    IN  mts \cup {[m EXCEPT !.has_rcon = FALSE, !.rcon = <<>>] : m \in mts}
            \cup {[m EXCEPT !.rcon = a] : m \in mts, a \in vals}

\* meshes of three cells of four points, each a tetrahedron or a cell type
\* save_as_archive has no branch for, with and without their arrays
MixedMeshes ==
    LET bare(cts) == Mesh(Points(4), cts,
                          <<<<0, 1, 2, 3>>, <<1, 0, 3, 2>>, <<3, 2, 1, 0>>>>)
    IN  UNION {{bare(cts), Complete(bare(cts), 185)} :
                  cts \in [1..3 -> {VTK_TETRA, VTK_QUAD}]}

\* meshes that differ in their element type numbers and element types
EtypeMeshes ==
    {[Complete(ThreeTetra, 185) EXCEPT !.etype = e, !.typenum = t] :
        e \in [1..3 -> {-1, 1, 3}], t \in [1..3 -> {185, 186}]}
    \cup {[Complete(ThreeTetra, 185) EXCEPT !.has_typenum = FALSE,
                                            !.typenum = <<>>]}

\* a file that holds a line before the call
OldFile == <<Line("old", <<>>, <<>>)>>

SvInit ==
    /\ sv_pc = "start"
    /\ \/ /\ grid \in NodeNumMeshes
          /\ sv_args \in {[DefaultArgs EXCEPT !.allow_missing = am,
                                              !.nnum_start = st] :
                             am \in BOOLEAN, st \in Starts}
          /\ sv_file = <<>>
       \/ /\ grid \in ElemNumMeshes
          /\ sv_args \in {[DefaultArgs EXCEPT !.allow_missing = am,
                                              !.enum_start = st,
                                              !.mode = md] :
                             am \in BOOLEAN, st \in Starts, md \in {"w", "a"}}
          /\ sv_file \in {<<>>, OldFile}
       \/ /\ grid \in ShapeMeshes
          /\ sv_args \in {[DefaultArgs EXCEPT !.allow_missing = am] :
                             am \in BOOLEAN}
          /\ sv_file = <<>>
       \/ /\ grid \in MatMeshes
          /\ sv_args \in {[DefaultArgs EXCEPT !.mtype_start = ms,
                                              !.real_constant_start = rs,
                                              !.nblock = nb] :
                             ms \in {1, 5}, rs \in {1, 5}, nb \in BOOLEAN}
          /\ sv_file = <<>>
       \/ /\ grid \in MixedMeshes
          /\ sv_args \in {[DefaultArgs EXCEPT !.allow_missing = am] :
                             am \in BOOLEAN}
          /\ sv_file = <<>>
       \/ /\ grid \in EtypeMeshes
          /\ sv_args \in {[DefaultArgs EXCEPT !.allow_missing = am,
                                              !.include_etype_header = ih,
                                              !.reset_etype = re] :
                             am \in BOOLEAN, ih \in BOOLEAN, re \in BOOLEAN}
          /\ sv_file = <<>>
    /\ grid_in = grid
    /\ sv_err = "none"
    /\ sv_opened = FALSE
    /\ sv_loc = <<>>

SvNext == SaveAsArchive

InitSv == SvInit /\ CmIdle /\ NbIdle /\ RgIdle

SpecSv == InitSv /\ [][SvNext]_vars

(***************************************************************************)
(* raw_to_grid (lines 605-731) and unique_rows (lines 745-753).            *)
(* A coordinate is a float64; the model keeps it as <<sign, magnitude>>    *)
(* with a whole magnitude below 32, so that -0.0 and 0.0 are two values    *)
(* and the bytes unique_rows compares can be computed.                     *)
(***************************************************************************)
\* the number a float stands for
FVal(f) == IF f[1] = 1 THEN -f[2] ELSE f[2]
\* IEEE addition, round to nearest: a zero sum is -0.0 only for -0.0 + -0.0
FAdd(a, b) ==
    LET s == FVal(a) + FVal(b)
    IN  IF s > 0 THEN <<0, s>>
        ELSE IF s < 0 THEN <<1, -s>>
        ELSE IF a = <<1, 0>> /\ b = <<1, 0>> THEN <<1, 0>>
        ELSE <<0, 0>>
\* IEEE multiplication by 0.5 of a float of even magnitude
FHalf(f) == <<f[1], f[2] \div 2>>
\* the midpoint of two positions, coordinate by coordinate
Midpoint(p, q) == [c \in 1..3 |-> FHalf(FAdd(p[c], q[c]))]

\* the exponent of a magnitude m >= 1: the largest e with 2^e <= m
RECURSIVE FExp(_)
FExp(m) == IF m < 2 THEN 0 ELSE 1 + FExp(m \div 2)
RECURSIVE Pow2(_)
Pow2(e) == IF e = 0 THEN 1 ELSE 2 * Pow2(e - 1)
\* the two high bytes of the little-endian float64 of f, in memory order:
\* byte 6 holds the low four bits of the biased exponent and the top four
\* bits of the fraction, byte 7 the sign and the high seven bits of the
\* exponent; the six bytes before them are zero for magnitudes below 32
FBytes(f) ==
    IF f[2] = 0 THEN <<0, f[1] * 128>>
    ELSE LET e      == FExp(f[2])
             biased == 1023 + e
         IN  <<(biased % 16) * 16 + (f[2] * Pow2(4 - e) - 16),
               f[1] * 128 + biased \div 16>>
\* the view of line 750: a row of three floats as one item of bytes
RowBytes(row) == FBytes(row[1]) \o FBytes(row[2]) \o FBytes(row[3])

\* bytewise order of two items of the same length
RECURSIVE BytesLess(_, _)
BytesLess(a, b) ==
    IF a = <<>> THEN FALSE
    ELSE IF Head(a) # Head(b) THEN Head(a) < Head(b)
    ELSE BytesLess(Tail(a), Tail(b))

\* the items of a set of byte strings in ascending order
RECURSIVE SortBytes(_)
SortBytes(S) ==
    IF S = {} THEN <<>>
    ELSE LET m == CHOOSE x \in S : \A y \in S \ {x} : BytesLess(x, y)
         IN  <<m>> \o SortBytes(S \ {m})

\* unique_rows(a) (lines 745-753): np.unique of the rows seen as bytes, with
\* the index of the first row of each item (idx) and, for every row, the
\* index of its item (idx2); indices are 0-based as in numpy
unique_rows(a) ==
    LET b     == [i \in DOMAIN a |-> RowBytes(a[i])]
        items == SortBytes(SeqToSet(b))
        idx   == [k \in DOMAIN items |->
                     (CHOOSE i \in DOMAIN a :
                         /\ b[i] = items[k]
                         /\ \A j \in DOMAIN a : b[j] = items[k] => i <= j) - 1]
        idx2  == [i \in DOMAIN a |->
                     (CHOOSE k \in DOMAIN items : items[k] = b[i]) - 1]
    IN  [rows |-> [k \in DOMAIN idx |-> a[idx[k] + 1]],
         idx  |-> idx,
         idx2 |-> idx2]

\* the edges of a quadratic tetrahedron as <<corner, corner, midside>> slots
\* of its compact node list
TetEdges ==
    <<<<0, 1, 4>>, <<1, 2, 5>>, <<0, 2, 6>>, <<0, 3, 7>>, <<1, 3, 8>>, <<2, 3, 9>>>>
\* the edge list of a cell type; a linear cell has no midside slot
EdgesOf(ct) == IF ct = VTK_QUADRATIC_TETRA THEN TetEdges ELSE <<>>

\* slot k (0-based) of cell i in the flat cell array: cells[offset[i] + 1 + k]
CellSlot(cells, offset, i, k) == PyGet(cells, offset[i] + 1 + k)

\* _relaxmidside.reset_midside from edge e of cell i on: the point of every
\* midside slot is set to the midpoint of the points of its two corners
RECURSIVE ResetFrom(_, _, _, _, _, _)
ResetFrom(cells, cell_type, offset, pts, i, e) ==
    IF i > Len(cell_type) THEN pts
    ELSE IF e > Len(EdgesOf(cell_type[i]))
         THEN ResetFrom(cells, cell_type, offset, pts, i + 1, 1)
    ELSE LET ed  == EdgesOf(cell_type[i])[e]
             a   == CellSlot(cells, offset, i, ed[1])
             b   == CellSlot(cells, offset, i, ed[2])
             mid == CellSlot(cells, offset, i, ed[3])
         IN  ResetFrom(cells, cell_type, offset,
                       [pts EXCEPT ![mid + 1] = Midpoint(pts[a + 1], pts[b + 1])],
                       i, e + 1)
reset_midside(cells, cell_type, offset, pts) ==
    ResetFrom(cells, cell_type, offset, pts, 1, 1)

\* numref of _parser.parse: the dense index of every node number, -1 for a
\* number no node has
Numref(nnum) ==
    [n \in 1..(np_max(nnum) + 1) |->
        IF \E i \in DOMAIN nnum : nnum[i] = n - 1
        THEN (CHOOSE i \in DOMAIN nnum : nnum[i] = n - 1) - 1
        ELSE -1]

\* mask = cells == -1 (line 664), as the set of the positions that hold -1
RgMask(cells) == {p \in DOMAIN cells : cells[p] = -1}
\* cells[mask] = vals: the k-th position of the mask gets the k-th value
AssignMasked(cells, mask, vals) ==
    [p \in DOMAIN cells |->
        IF p \in mask THEN vals[Cardinality({q \in mask : q <= p})]
        ELSE cells[p]]

\* mutant of RgRewrite: the provisional indices are kept
RgRewriteKeepsProvisional(cells, mask, u, maxnum) == cells

\* line 680: cells[mask] = idxB + maxnum
RgRewrite(cells, mask, u, maxnum) ==
    AssignMasked(cells, mask, [k \in DOMAIN u.idx2 |-> u.idx2[k] + maxnum])

\* lines 681-692: the point table, the angles and the node numbers of the
\* raw nodes followed by those of the rows unique_rows kept
RgPoints(raw, u) ==
    [points |-> raw.nodes \o u.rows,
     angles |-> raw.angles \o [k \in DOMAIN u.idx |-> <<0, 0, 0>>],
     nnum   |-> raw.nnum \o [k \in DOMAIN u.idx |-> -1]]

\* lines 658-692: the cells and the points of the grid
RgAssemble(raw, parsed, force_linear) ==
    IF force_linear \/ ~AnyEq(parsed.cells, -1)
    THEN [cells  |-> parsed.cells, points |-> raw.nodes,
          angles |-> raw.angles,   nnum   |-> raw.nnum]
    ELSE LET mask     == RgMask(parsed.cells)
             nextra   == Cardinality(mask)
             maxnum   == np_max(parsed.numref) + 1
             cells    == AssignMasked(parsed.cells, mask,
                                      arange(maxnum, maxnum + nextra))
             nnodes   == Len(raw.nodes)
             nodes    == raw.nodes
                         \o [k \in 1..nextra |-> <<<<0, 0>>, <<0, 0>>, <<0, 0>>>>]
             temp     == reset_midside(cells, parsed.cell_type, parsed.offset,
                                       nodes)
             new_nodes == SubSeq(temp, nnodes + 1, Len(temp))
             u        == unique_rows(new_nodes)
             pt       == RgPoints(raw, u)
         IN  [cells  |-> RgRewrite(cells, mask, u, maxnum),
              points |-> pt.points, angles |-> pt.angles, nnum |-> pt.nnum]

\* np.in1d(a, comp): for every entry of a, whether comp holds it
in1d(a, comp) == [i \in DOMAIN a |-> a[i] \in comp]

\* raw_to_grid(raw, None, force_linear, False): the grid returned, with the
\* arrays of lines 701-730
RawToGrid(raw, parsed, force_linear) ==
    LET g == RgAssemble(raw, parsed, force_linear)
    IN  [cells     |-> g.cells,
         offset    |-> parsed.offset,
         celltypes |-> parsed.cell_type,
         points    |-> g.points,
         nnum      |-> g.nnum,
         enum      |-> parsed.enum,
         typenum   |-> parsed.etype,
         rcon      |-> parsed.rcon,
         mtype     |-> parsed.mtype,
         etype     |-> parsed.ansys_etype,
         elem_comp |-> in1d(parsed.enum, raw.elem_comp),
         node_comp |-> in1d(g.nnum, raw.node_comp),
         origid    |-> [i \in DOMAIN g.points |-> i - 1],
         angles    |-> g.angles]

\* the call of raw_to_grid on the arguments bound at the start
RawToGridCall ==
    /\ rg_pc = "start"
    /\ rg_pc' = "done"
    /\ rg_grid' = RawToGrid(rg_raw, rg_parsed, rg_force)
    /\ UNCHANGED <<rg_raw, rg_parsed, rg_force, cm_vars, nb_vars, sv_vars>>

\* the float of a whole number
F(n) == IF n < 0 THEN <<1, -n>> ELSE <<0, n>>
\* -0.0
NegZero == <<1, 0>>

\* the corners of a tetrahedron on the plane z = zf with its apex at z = h
RgCorners(zf, h) ==
    <<<<F(0), F(0), zf>>, <<F(2), F(0), zf>>, <<F(0), F(2), zf>>,
      <<F(0), F(0), F(h)>>>>

\* two quadratic tetrahedra with a face in the plane z = 0, their apexes on
\* either side.  With sep false they share the three corner nodes of that
\* face; with sep true the second has three nodes of its own at the same
\* places (two bodies in contact), whose z coordinate is zf.  Every edge has
\* a midside node in the raw table; the slots in `missing` (pairs of cell
\* and slot) hold -1, as _parser.parse leaves them for an absent midside.
RgTwoTetra(sep, zf, missing) ==
    LET c1     == RgCorners(F(0), 2)
        c2     == RgCorners(zf, -2)
        own    == IF sep THEN 4 ELSE 1   \* corners the second cell adds
        corner == c1 \o SubSeq(c2, 5 - own, 4)
        nc     == Len(corner)
        con1   == <<0, 1, 2, 3>>
        con2   == IF sep THEN <<4, 5, 6, 7>> ELSE <<0, 1, 2, 4>>
        \* midside nodes: six of the first cell, then those of the edges
        \* of the second cell that are not edges of the first
        shared(e) == ~sep /\ e <= 3
        mid1   == [e \in 1..6 |-> nc + e - 1]
        mid2   == [e \in 1..6 |-> IF shared(e) THEN mid1[e]
                                  ELSE IF sep THEN nc + 6 + e - 1
                                  ELSE nc + 6 + e - 4]
        midpos(con, e) == Midpoint(corner[con[TetEdges[e][1] + 1] + 1],
                                   corner[con[TetEdges[e][2] + 1] + 1])
        nodes  == corner \o [e \in 1..6 |-> midpos(con1, e)]
                         \o (IF sep THEN [e \in 1..6 |-> midpos(con2, e)]
                             ELSE [e \in 1..3 |-> midpos(con2, e + 3)])
        slots(cell, con, mid) ==
            con \o [e \in 1..6 |-> IF <<cell, e + 3>> \in missing THEN -1
                                   ELSE mid[e]]
        conn   == <<slots(1, con1, mid1), slots(2, con2, mid2)>>
        nnum   == [i \in DOMAIN nodes |-> 2 * i + 1]
    IN  [raw |-> [nodes  |-> nodes,
                  angles |-> [i \in DOMAIN nodes |-> <<i % 3, 0, 0>>],
                  nnum   |-> nnum,
                  node_comp |-> {3, 5},
                  elem_comp |-> {7}],
         parsed |-> [cells     |-> FlatCells(conn),
                     offset    |-> Offsets(conn, 0),
                     cell_type |-> <<VTK_QUADRATIC_TETRA, VTK_QUADRATIC_TETRA>>,
                     numref    |-> Numref(nnum),
                     enum      |-> <<7, 8>>,
                     etype     |-> <<187, 187>>,
                     rcon      |-> <<1, 1>>,
                     mtype     |-> <<1, 1>>,
                     ansys_etype |-> <<1, 1>>]]

\* the same two cells as linear tetrahedra, as _parser.parse returns them
\* for force_linear
RgTwoLinear ==
    LET q    == RgTwoTetra(FALSE, F(0), {})
        conn == <<<<0, 1, 2, 3>>, <<0, 1, 2, 4>>>>
    IN  [raw |-> q.raw,
         parsed |-> [q.parsed EXCEPT !.cells = FlatCells(conn),
                                     !.offset = Offsets(conn, 0),
                                     !.cell_type = <<VTK_TETRA, VTK_TETRA>>,
                                     !.etype = <<185, 185>>]]

\* the midside slots of the two cells
RgSlots == {1, 2} \X (4..9)

\* the arguments of raw_to_grid: quadratic cells with any of their midside
\* nodes absent, shared or coincident corners, and linear cells
RgInit ==
    /\ rg_pc = "start"
    /\ rg_grid = <<>>
    /\ \/ /\ rg_force = FALSE
          /\ \E sep \in BOOLEAN, zf \in {F(0), NegZero}, m \in SUBSET RgSlots :
                /\ (~sep => zf = F(0))
                /\ rg_raw = RgTwoTetra(sep, zf, m).raw
                /\ rg_parsed = RgTwoTetra(sep, zf, m).parsed
       \/ /\ rg_force \in BOOLEAN
          /\ rg_raw = RgTwoLinear.raw
          /\ rg_parsed = RgTwoLinear.parsed

RgNext == RawToGridCall
InitRg == RgInit /\ CmIdle /\ NbIdle /\ SvIdle
SpecRg == InitRg /\ [][RgNext]_vars

(***************************************************************************)
(* The archive reader's selection of the genuine slots of an element       *)
(* record (the reader is not part of the sources at hand; the tables name, *)
(* for each node of the compact list, the slot the format keeps it in)     *)
(***************************************************************************)
\* for each place of the compact node list, its (0-based) archive slot
GenuineSlots(ct, nslots) ==
    CASE ct = VTK_TETRA -> <<0, 1, 2, 4>>
      [] ct = VTK_QUADRATIC_TETRA /\ nslots = 10 ->
            <<0, 1, 2, 3, 4, 5, 6, 7, 8, 9>>
      [] ct = VTK_QUADRATIC_TETRA /\ nslots # 10 ->
            <<0, 1, 2, 4, 8, 9, 11, 16, 17, 18>>
      [] ct = VTK_HEXAHEDRON -> <<0, 1, 2, 3, 4, 5, 6, 7>>
      [] ct = VTK_QUADRATIC_HEXAHEDRON ->
            <<0, 1, 2, 3, 4, 5, 6, 7, 8, 9, 10, 11, 12, 13, 14, 15, 16, 17,
              18, 19>>
      [] ct = VTK_WEDGE -> <<2, 1, 0, 6, 5, 4>>
      [] ct = VTK_QUADRATIC_WEDGE ->
            <<2, 1, 0, 6, 5, 4, 9, 8, 11, 13, 12, 15, 18, 17, 16>>
      [] ct = VTK_PYRAMID -> <<0, 1, 2, 3, 4>>
      [] ct = VTK_QUADRATIC_PYRAMID ->
            <<0, 1, 2, 3, 4, 8, 9, 10, 11, 16, 17, 18, 19>>

\* the compact node list read back from the slots of an element record
fromArchiveSlots(ct, slots) ==
    [k \in 1..Len(GenuineSlots(ct, Len(slots))) |->
        PyGet(slots, GenuineSlots(ct, Len(slots))[k])]

(***************************************************************************)
(* Reading a written archive                                               *)
(***************************************************************************)
\* fields of cellinfo before the node ids of an element record
CellinfoFields == 11

\* the lines of kind `kind`
RECURSIVE LinesOf(_, _)
LinesOf(lines, kind) ==
    IF Len(lines) = 0 THEN <<>>
    ELSE (IF Head(lines).kind = kind THEN <<Head(lines)>> ELSE <<>>)
         \o LinesOf(Tail(lines), kind)

\* the element records: for each, the fields of cellinfo and the node slots
RECURSIVE ElemRecords(_)
ElemRecords(lines) ==
    IF Len(lines) = 0 THEN <<>>
    ELSE IF Head(lines).kind # "elem" THEN ElemRecords(Tail(lines))
    ELSE LET first == Head(lines).vals
             cont  == IF Len(lines) > 1 /\ lines[2].kind = "elem+"
                      THEN lines[2].vals ELSE <<>>
         IN  <<[info  |-> SubSeq(first, 1, CellinfoFields),
                slots |-> SubSeq(first, CellinfoFields + 1, Len(first)) \o cont]>>
             \o ElemRecords(Tail(lines))

\* the compact node list of cell i: the node numbers of its points
CompactNodes(g, nodenum, i) ==
    [k \in 1..PyGet(g.cells, g.offset[i]) |->
        PyGet(nodenum, PyGet(g.cells, g.offset[i] + k))]

SvDone == sv_pc = "done"

C6_TetraPattern ==
    (SvDone /\ sv_err = "none") =>
        \A i \in DOMAIN grid_in.celltypes :
            grid_in.celltypes[i] = VTK_TETRA =>
                LET n == CompactNodes(grid_in, sv_loc.nodenum, i)
                    w == ElemRecords(sv_file)[i].slots
                IN  /\ w = <<n[1], n[2], n[3], n[3], n[4], n[4], n[4], n[4]>>
                    /\ <<w[1], w[2], w[3], w[5]>> = n

\* C6 witness: a tetrahedron with four distinct node ids was written
C6_Witness ==
    /\ SvDone /\ sv_err = "none"
    /\ grid_in.celltypes = <<VTK_TETRA>>
    /\ ElemRecords(sv_file)[1].slots =
          <<112, 109, 106, 106, 103, 103, 103, 103>>

\* the mesh has unassigned node ids or unassigned element ids
MissingIds(g) ==
    \/ ~g.has_nnum \/ AnyEq(g.nnum, -1)
    \/ ~g.has_enum \/ AnyEq(g.enum, -1)

\* C8 as stated: with allow_missing false the call fails, before the file is
\* opened, whenever the node-number or element-number array is absent or
\* holds -1
C8_MissingIdsRejected ==
    (SvDone /\ ~sv_args.allow_missing /\ MissingIds(grid_in))
        => (sv_err # "none" /\ ~sv_opened)

\* the same without the case of an absent node-number array
SvMissingIdsRejectedButAbsentNnum ==
    (SvDone /\ ~sv_args.allow_missing
        /\ \/ (grid_in.has_nnum /\ AnyEq(grid_in.nnum, -1))
           \/ ~grid_in.has_enum \/ AnyEq(grid_in.enum, -1))
        => (sv_err # "none" /\ ~sv_opened)

\* the numbers the claim assigns: the -1 entries of arr, in array order, get
\* consecutive numbers from the larger of (largest assigned number + 1) and
\* start
Renumbered(arr, start) ==
    LET cands == {start} \cup {arr[k] + 1 : k \in {j \in DOMAIN arr : arr[j] # -1}}
        first == CHOOSE x \in cands : \A y \in cands : y <= x
    IN  [k \in 1..Len(arr) |->
            IF arr[k] # -1 THEN arr[k]
            ELSE first + Cardinality({j \in 1..(k - 1) : arr[j] = -1})]

AssignedDistinct(arr) ==
    \A i, j \in DOMAIN arr : (i # j /\ arr[i] # -1 /\ arr[j] # -1) => arr[i] # arr[j]

\* the node numbers of the node rows, and the element numbers (field 11) of
\* the element records, of a written file
WrittenNodeNums(lines) == {r.vals[1] : r \in SeqToSet(LinesOf(lines, "node"))}
WrittenElemNums(lines) ==
    [k \in 1..Len(ElemRecords(lines)) |-> ElemRecords(lines)[k].info[11]]

\* C9: with allow_missing true, the -1 entries of the node-number (resp.
\* element-number) array are replaced, in array order, by consecutive numbers
\* from max(largest assigned + 1, nnum_start) (resp. enum_start); assigned
\* numbers are kept, no -1 remains, and if the assigned numbers were pairwise
\* distinct then the numbers written are pairwise distinct
C9_Renumbering ==
    /\ (SvDone /\ sv_args.allow_missing /\ grid_in.has_nnum
            /\ AnyEq(grid_in.nnum, -1)) =>
          /\ sv_err = "none"
          /\ sv_loc.nodenum = Renumbered(grid_in.nnum, sv_args.nnum_start)
          /\ ~AnyEq(sv_loc.nodenum, -1)
          /\ WrittenNodeNums(sv_file) = SeqToSet(sv_loc.nodenum)
          /\ AssignedDistinct(grid_in.nnum) => Injective(sv_loc.nodenum)
    /\ (SvDone /\ sv_args.allow_missing /\ grid_in.has_enum
            /\ AnyEq(grid_in.enum, -1)) =>
          /\ sv_err = "none"
          /\ sv_loc.enum = Renumbered(grid_in.enum, sv_args.enum_start)
          /\ ~AnyEq(sv_loc.enum, -1)
          /\ WrittenElemNums(sv_file) = sv_loc.enum
          /\ AssignedDistinct(grid_in.enum) => Injective(sv_loc.enum)

\* C9 witness: node numbers -1, 2, -1, 4 with nnum_start 3 became 5, 2, 6, 4
C9_Witness ==
    /\ SvDone /\ sv_err = "none" /\ sv_args.allow_missing
    /\ grid_in.has_nnum /\ grid_in.nnum = <<-1, 2, -1, 4>>
    /\ sv_args.nnum_start = 3
    /\ sv_loc.nodenum = <<5, 2, 6, 4>>
    /\ WrittenNodeNums(sv_file) = {2, 4, 5, 6}

\* C10 as stated: with no node-number (resp. element-number) array and
\* auto-numbering permitted, the points (resp. cells) are numbered
\* consecutively from nnum_start (resp. enum_start), whatever its value
C10_DefaultNumbersFromStart ==
    /\ (SvDone /\ sv_args.allow_missing /\ ~grid_in.has_nnum) =>
          sv_loc.nodenum = arange(sv_args.nnum_start,
                                  sv_args.nnum_start + Len(grid_in.points))
    /\ (SvDone /\ sv_args.allow_missing /\ ~grid_in.has_enum) =>
          sv_loc.enum = arange(sv_args.enum_start,
                               sv_args.enum_start + Len(grid_in.celltypes))

\* the cell has no material id: the array is absent, or its entry is -1
NoMtype(g, i) == ~g.has_mtype \/ g.mtype[i] = -1
\* the cell has no real constant id: the array is absent, or its entry is -1
NoRcon(g, i) == ~g.has_rcon \/ g.rcon[i] = -1

\* C11 as stated: every cell that has no material id (array absent, or entry
\* -1) is written with material id mtype_start, and every cell that has no
\* real-constant id with real-constant id real_constant_start
C11_UnsetGetStart ==
    (SvDone /\ sv_err = "none") =>
        \A i \in DOMAIN grid_in.celltypes :
            /\ NoMtype(grid_in, i) =>
                  ElemRecords(sv_file)[i].info[1] = sv_args.mtype_start
            /\ NoRcon(grid_in, i) =>
                  ElemRecords(sv_file)[i].info[3] = sv_args.real_constant_start

\* the same for the -1 entries of arrays that are present
SvMinusOneGetStart ==
    (SvDone /\ sv_err = "none") =>
        \A i \in DOMAIN grid_in.celltypes :
            /\ (grid_in.has_mtype /\ grid_in.mtype[i] = -1) =>
                  ElemRecords(sv_file)[i].info[1] = sv_args.mtype_start
            /\ (grid_in.has_rcon /\ grid_in.rcon[i] = -1) =>
                  ElemRecords(sv_file)[i].info[3] = sv_args.real_constant_start

\* C12 as stated: the node block is written if and only if nblock is true
C12_NblockIffOption ==
    (SvDone /\ sv_err = "none") =>
        (sv_args.nblock <=> Len(LinesOf(sv_file, "NBLOCK,6,SOLID")) > 0)

\* C13 as stated: the EBLOCK header carries the largest element id of the
\* written elements and the number of elements, whatever the order of the ids
C13_EblockHeaderMax ==
    (SvDone /\ sv_err = "none") =>
        LinesOf(sv_file, "EBLOCK,19,SOLID") =
            <<Line("EBLOCK,19,SOLID",
                   <<np_max(WrittenElemNums(sv_file)),
                     Len(grid_in.celltypes)>>, <<>>)>>

\* the header does carry the number of elements, and the last element id
SvEblockHeaderLast ==
    (SvDone /\ sv_err = "none") =>
        LinesOf(sv_file, "EBLOCK,19,SOLID") =
            <<Line("EBLOCK,19,SOLID",
                   <<PyGet(WrittenElemNums(sv_file), -1),
                     Len(grid_in.celltypes)>>, <<>>)>>

\* the mesh holds a cell of none of the eight supported shapes
HasUnsupported(g) == \E i \in DOMAIN g.celltypes : g.celltypes[i] \notin Writable

\* C14: a mesh with a cell of an unsupported shape, wherever it sits, always
\* ends the call in an error, and the terminator line of the element block is
\* never written
C14_UnsupportedTerminal ==
    (SvDone /\ HasUnsupported(grid_in)) =>
        (sv_err # "none" /\ Len(LinesOf(sv_file, "-1")) = 0)

\* C14 witness: the unsupported cell sits between two tetrahedra, the call
\* raised at it after the first element record was written
C14_Witness ==
    /\ SvDone /\ grid_in.celltypes = <<VTK_TETRA, VTK_QUAD, VTK_TETRA>>
    /\ sv_err = "Exception@461"
    /\ Len(ElemRecords(sv_file)) = 1
    /\ Len(LinesOf(sv_file, "-1")) = 0

\* the ET lines of a file for element type number id
EtLinesFor(lines, id) ==
    {k \in DOMAIN lines : lines[k].kind = "ET" /\ lines[k].vals[1] = id}

\* C15 as stated: with include_etype_header true, every element type number
\* carried by a written element has exactly one ET line, and all ET lines
\* come before the EBLOCK header
C15_OneEtPerType ==
    (SvDone /\ sv_err = "none" /\ sv_args.include_etype_header) =>
        /\ \A i \in DOMAIN ElemRecords(sv_file) :
              Cardinality(EtLinesFor(sv_file, ElemRecords(sv_file)[i].info[2])) = 1
        /\ \A k, e \in DOMAIN sv_file :
              (sv_file[k].kind = "ET" /\ sv_file[e].kind = "EBLOCK,19,SOLID")
                  => k < e

\* the same when no linear cell of the mesh is typed 186
SvOneEtPerTypeValid ==
    (SvDone /\ sv_err = "none" /\ sv_args.include_etype_header
        /\ ~(grid_in.has_etype /\ ~sv_args.reset_etype /\ grid_in.has_typenum
             /\ ~AnyEq(grid_in.etype, -1)
             /\ \E i \in DOMAIN grid_in.celltypes :
                   grid_in.celltypes[i] < 20 /\ grid_in.typenum[i] = 186)) =>
        /\ \A i \in DOMAIN ElemRecords(sv_file) :
              Cardinality(EtLinesFor(sv_file, ElemRecords(sv_file)[i].info[2])) = 1
        /\ \A k, e \in DOMAIN sv_file :
              (sv_file[k].kind = "ET" /\ sv_file[e].kind = "EBLOCK,19,SOLID")
                  => k < e

\* C19 as stated: the call leaves the mesh's node-number, element-number,
\* material and real-constant arrays as they were
C19_MeshUnchanged ==
    SvDone =>
        /\ grid.nnum = grid_in.nnum /\ grid.enum = grid_in.enum
        /\ grid.mtype = grid_in.mtype /\ grid.rcon = grid_in.rcon

\* C20 as stated: a quadratic tetrahedron written under element type 186
\* gets the slots I,J,K,K,M,M,M,M,Q,R,K,T,M,M,M,M,Y,Z,A,A of its nodes
C20_Tetra10Pattern186 ==
    (SvDone /\ sv_err = "none") =>
        \A i \in DOMAIN grid_in.celltypes :
            (grid_in.celltypes[i] = VTK_QUADRATIC_TETRA
                /\ sv_loc.typenum[i] = 186) =>
                LET n == CompactNodes(grid_in, sv_loc.nodenum, i)
                IN  ElemRecords(sv_file)[i].slots =
                       <<n[1], n[2], n[3], n[3], n[4], n[4], n[4], n[4],
                         n[5], n[6], n[3], n[7], n[4], n[4], n[4], n[4],
                         n[8], n[9], n[10], n[10]>>

\* every slot of that record but slot S (index 10) holds the documented node;
\* slot S holds M
SvTetra10Pattern186ButS ==
    (SvDone /\ sv_err = "none") =>
        \A i \in DOMAIN grid_in.celltypes :
            (grid_in.celltypes[i] = VTK_QUADRATIC_TETRA
                /\ sv_loc.typenum[i] = 186) =>
                LET n == CompactNodes(grid_in, sv_loc.nodenum, i)
                IN  ElemRecords(sv_file)[i].slots =
                       <<n[1], n[2], n[3], n[3], n[4], n[4], n[4], n[4],
                         n[5], n[6], n[4], n[7], n[4], n[4], n[4], n[4],
                         n[8], n[9], n[10], n[10]>>

\* raw_to_grid has returned
RgDone == rg_pc = "done"
\* the cells of the call
RgCells == DOMAIN rg_parsed.cell_type
\* the edges (indices into the edge list) of cell i
RgEdges(i) == DOMAIN EdgesOf(rg_parsed.cell_type[i])
\* slot k of cell i as the parser left it, and in the grid returned
RgSlotIn(i, k) == CellSlot(rg_parsed.cells, rg_parsed.offset, i, k)
RgSlotOut(i, k) == CellSlot(rg_grid.cells, rg_grid.offset, i, k)
\* the midside slot of edge e of cell i, and whether the parser left it -1
RgMidSlot(i, e) == EdgesOf(rg_parsed.cell_type[i])[e][3]
RgLacks(i, e) == RgSlotIn(i, RgMidSlot(i, e)) = -1
\* the two corner points of edge e of cell i
RgEnds(i, e) ==
    {RgSlotIn(i, EdgesOf(rg_parsed.cell_type[i])[e][1]),
     RgSlotIn(i, EdgesOf(rg_parsed.cell_type[i])[e][2])}
\* the midpoint of edge e of cell i, from the raw positions of its corners
RgEdgeMid(i, e) ==
    Midpoint(rg_raw.nodes[RgSlotIn(i, EdgesOf(rg_parsed.cell_type[i])[e][1]) + 1],
             rg_raw.nodes[RgSlotIn(i, EdgesOf(rg_parsed.cell_type[i])[e][2]) + 1])
\* the place a row of floats stands for: -0.0 and 0.0 are the same number
Place(row) == <<FVal(row[1]), FVal(row[2]), FVal(row[3])>>
\* the points of the grid that are not raw nodes
RgAdded == (Len(rg_raw.nodes) + 1)..Len(rg_grid.points)
\* two cells lack the midside node of an edge they share, and both have the
\* same added point in that slot
RgSharedEdgesMerged ==
    \A i, j \in RgCells : \A e \in RgEdges(i), f \in RgEdges(j) :
        (RgLacks(i, e) /\ RgLacks(j, f) /\ RgEnds(i, e) = RgEnds(j, f)) =>
            /\ RgSlotOut(i, RgMidSlot(i, e)) = RgSlotOut(j, RgMidSlot(j, f))
            /\ RgSlotOut(i, RgMidSlot(i, e)) + 1 \in RgAdded

\* C16 as stated: two cells that both lack the midside node of a shared edge
\* reference the same single synthesized point, and no two synthesized
\* points have the same position
C16_MidsideDedup ==
    RgDone =>
        /\ RgSharedEdgesMerged
        /\ \A p, q \in RgAdded :
              p # q => Place(rg_grid.points[p]) # Place(rg_grid.points[q])

\* shared edges are merged, and no two synthesized points have the same
\* coordinates bit for bit
RgMidsideDedupBitwise ==
    RgDone =>
        /\ RgSharedEdgesMerged
        /\ \A p, q \in RgAdded : p # q => rg_grid.points[p] # rg_grid.points[q]

\* a shared edge whose midside node both cells lack was merged in a call
RgMergedSharedEdge ==
    /\ RgDone
    /\ \E e \in RgEdges(1), f \in RgEdges(2) :
          RgLacks(1, e) /\ RgLacks(2, f) /\ RgEnds(1, e) = RgEnds(2, f)
    /\ Len(rg_grid.points) < Len(rg_raw.nodes) + Cardinality(RgMask(rg_parsed.cells))

\* C17: in the grid returned no connectivity entry is -1 and every point
\* index of a cell is an index of the point table, also where provisional
\* midside indices were rewritten to the deduplicated ones
C17_IndicesInRange ==
    RgDone =>
        \A i \in RgCells :
            \A k \in 0..(CellSlot(rg_grid.cells, rg_grid.offset, i, -1) - 1) :
                /\ RgSlotOut(i, k) # -1
                /\ RgSlotOut(i, k) \in 0..(Len(rg_grid.points) - 1)

\* C17 witness: midside nodes were absent, two of them were merged, and a
\* cell references the last point of the table
C17_Witness ==
    /\ RgMergedSharedEdge
    /\ \E i \in RgCells, k \in 4..9 :
          RgSlotIn(i, k) = -1 /\ RgSlotOut(i, k) = Len(rg_grid.points) - 1

\* the raw nodes are the first points of the grid, unchanged, and every
\* point after them has node number -1 and zero angles
RgRawNodesKept ==
    LET n == Len(rg_raw.nodes)
    IN  /\ Len(rg_grid.points) >= n
        /\ Len(rg_grid.nnum) = Len(rg_grid.points)
        /\ Len(rg_grid.angles) = Len(rg_grid.points)
        /\ SubSeq(rg_grid.points, 1, n) = rg_raw.nodes
        /\ SubSeq(rg_grid.angles, 1, n) = rg_raw.angles
        /\ SubSeq(rg_grid.nnum, 1, n) = rg_raw.nnum
        /\ \A p \in RgAdded :
              rg_grid.nnum[p] = -1 /\ rg_grid.angles[p] = <<0, 0, 0>>
\* the edges whose midside node is to be synthesized
RgLacking ==
    IF rg_force THEN {}
    ELSE {ie \in RgCells \X (1..6) : ie[2] \in RgEdges(ie[1]) /\ RgLacks(ie[1], ie[2])}

\* C18 as stated: the raw nodes come first, unchanged; the synthesized
\* points follow with node id -1 and angle zero; the point count is N plus
\* the number of distinct synthesized positions
C18_OnlyAppends ==
    RgDone =>
        /\ RgRawNodesKept
        /\ Len(rg_grid.points) = Len(rg_raw.nodes)
              + Cardinality({Place(RgEdgeMid(ie[1], ie[2])) : ie \in RgLacking})

\* the same with the synthesized rows counted bit for bit
RgOnlyAppendsBitwise ==
    RgDone =>
        /\ RgRawNodesKept
        /\ Len(rg_grid.points) = Len(rg_raw.nodes)
              + Cardinality({RgEdgeMid(ie[1], ie[2]) : ie \in RgLacking})

\* the node ids written after the eleven header fields of record i are as
\* many as field 9 of the record says
NodeCountMatches(i) ==
    ElemRecords(sv_file)[i].info[9] = Len(ElemRecords(sv_file)[i].slots)

\* C21 as stated: in every element record written, field 9 equals the number
\* of node-id fields written after the 11-field header, for every cell shape
\* and every element type 185, 186, 187 the mesh carries
C21_NodeCountField ==
    (SvDone /\ sv_err = "none") =>
        \A i \in DOMAIN grid_in.celltypes :
            sv_loc.typenum[i] \in {185, 186, 187} => NodeCountMatches(i)

\* the element type of cell i fits its shape: 185 for a linear cell, 186 for
\* a quadratic one, or 187 for a quadratic tetrahedron
TypeFitsShape(i) ==
    \/ grid_in.celltypes[i] < 20 /\ sv_loc.typenum[i] = 185
    \/ grid_in.celltypes[i] >= 20 /\ sv_loc.typenum[i] = 186
    \/ grid_in.celltypes[i] = VTK_QUADRATIC_TETRA /\ sv_loc.typenum[i] = 187

\* field 9 is right where the element type fits the shape, as it does for
\* every type save_as_archive assigns by default
SvNodeCountFieldFitting ==
    (SvDone /\ sv_err = "none") =>
        \A i \in DOMAIN grid_in.celltypes :
            /\ TypeFitsShape(i) => NodeCountMatches(i)
            /\ (~grid_in.has_etype \/ sv_args.reset_etype) => TypeFitsShape(i)

\* C22 as stated: a call that ends in an error leaves the file as it was and
\* never opened it, whatever the check that failed
C22_ErrorLeavesFileUnwritten ==
    [][(sv_err' # "none") => (sv_file' = sv_file /\ ~sv_opened')]_vars

\* the same for every error but the one of an unsupported cell shape
SvEarlyErrorLeavesFile ==
    [][(sv_err' \notin {"none", "Exception@461"})
          => (sv_file' = sv_file /\ ~sv_opened')]_vars

====
